---- MODULE Spec2Model ----
(***************************************************************************)
(* Model of server.js: the Express handlers of the loan backend, their     *)
(* awaits on the identity provider and on the document store, and the two  *)
(* physical copies (per-user and global) of every loan application.        *)
(*                                                                         *)
(* One request slot is one in-flight HTTP request.  A handler suspends at  *)
(* every await; one action of the model is one awaited call taking effect  *)
(* (or failing) followed by the synchronous code up to the next await.     *)
(* A successful last write and the response that follows it are separate   *)
(* steps: other requests can act on the store in between.                  *)
(***************************************************************************)
EXTENDS Integers, Sequences, FiniteSets, TLC

\* ---------------------------------------------------------------- bounds
NumSlots == 2
MaxApps == 2
NumUsers == 2
\* signups are taken until this many profiles are stored (LiveSpec)
MaxProfiles == 1
MaxCreated == 1

Slots == 1..NumSlots
AppIds == 1..MaxApps
\* the :id values requests name: the ids the store generates and one it never does
TargetIds == 1..(MaxApps + 1)
UIDs == 1..NumUsers

\* ------------------------------------------------------- request inputs
\* A JS object is a record whose domain is the set of defined properties:
\* a property that is undefined is absent from the domain.
Has(o, f) == f \in DOMAIN o

\* JS truthiness of property f of o, for the values the inputs range over:
\* undefined and "" are falsy for a text property, undefined and 0 for a
\* numeric one.
Truthy(o, f) == Has(o, f) /\ o[f] # ""
TruthyNum(o, f) == Has(o, f) /\ o[f] # 0

NULL == "<null>"

SignupBodies ==
  { [email |-> "a@x.io", password |-> "secret1", mobile |-> "+911"],
    [email |-> "b@x.io", password |-> "secret2", mobile |-> "+912"],
    [email |-> "a@x.io", password |-> "other",   mobile |-> "+913"],
    [email |-> "",       password |-> "secret1", mobile |-> "+911"],
    [email |-> "b@x.io", mobile |-> "+912"],
    [email |-> "a@x.io", password |-> "secret1"] }

FullBody(lt, amt) ==
  [loanType |-> lt, purpose |-> "Medical", panNumber |-> "ABCDE1234F",
   requestedLoanAmount |-> amt, monthlyEmi |-> 4500, totalInterest |-> 4000,
   principalAmount |-> amt, totalAmountPayable |-> amt + 4000,
   idProofFileName |-> "id.png"]

MandatoryOnly ==
  [loanType |-> "Personal", purpose |-> "Medical", panNumber |-> "ABCDE1234F",
   requestedLoanAmount |-> 50000]

ApplyBodies ==
  { FullBody("Home", 90000), MandatoryOnly,
    [purpose |-> "Medical", panNumber |-> "ABCDE1234F", requestedLoanAmount |-> 50000],
    [loanType |-> "Personal", purpose |-> "", panNumber |-> "ABCDE1234F",
     requestedLoanAmount |-> 50000],
    [loanType |-> "Personal", purpose |-> "Medical", requestedLoanAmount |-> 50000],
    [loanType |-> "Personal", purpose |-> "Medical", panNumber |-> "ABCDE1234F",
     requestedLoanAmount |-> 0] }

UpdateBodies ==
  { [status |-> "Approved", repayment |-> "Paid"],
    [status |-> "Rejected"],
    [status |-> "OnHold"],
    [status |-> "Pending", repayment |-> ""],
    [repayment |-> "Paid"],
    [status |-> "", repayment |-> "Paid"] }

NoBody == [none |-> TRUE]

\* ------------------------------------------------ Authorization header
\* A header value is a sequence of atoms: the separator "Bearer ", an
\* identity token, or other text.  A request may carry no header at all.
SepAtom == [t |-> "sep"]
Jwt(u, good) == [t |-> "jwt", uid |-> u, good |-> good]
TxtAtom == [t |-> "txt"]

AuthHeaders ==
  { [has |-> FALSE, val |-> << >>] }
  \cup { [has |-> TRUE, val |-> <<SepAtom, Jwt(u, TRUE)>>] : u \in UIDs }
  \cup { [has |-> TRUE, val |-> <<SepAtom, Jwt(1, FALSE)>>],
         [has |-> TRUE, val |-> <<SepAtom>>],
         [has |-> TRUE, val |-> <<TxtAtom, Jwt(1, TRUE)>>] }

\* String.prototype.split('Bearer '): the pieces between the separators.
RECURSIVE SplitBearer(_, _, _)
SplitBearer(s, cur, acc) ==
  IF s = << >> THEN Append(acc, cur)
  ELSE IF Head(s) = SepAtom THEN SplitBearer(Tail(s), << >>, Append(acc, cur))
  ELSE SplitBearer(Tail(s), Append(cur, Head(s)), acc)

\* req.headers.authorization?.split('Bearer ')[1]
BearerToken(h) ==
  IF ~h.has THEN [def |-> FALSE, s |-> << >>]
  ELSE LET parts == SplitBearer(h.val, << >>, << >>)
       IN  IF Len(parts) >= 2 THEN [def |-> TRUE, s |-> parts[2]]
           ELSE [def |-> FALSE, s |-> << >>]

\* !idToken : undefined and the empty string are falsy
NoToken(tok) == ~tok.def \/ tok.s = << >>

\* TokenVerifies decoding the token without checking it
TokenDecodes(tok) ==
  tok.def /\ Len(tok.s) = 1 /\ tok.s[1].t = "jwt"

\* auth.verifyIdToken accepts a well-formed, unexpired token of the project
TokenVerifies(tok) ==
  tok.def /\ Len(tok.s) = 1 /\ tok.s[1].t = "jwt" /\ tok.s[1].good

NoTok == [def |-> FALSE, s |-> << >>]

\* ------------------------------------------------------------------ state
VARIABLES
  req,         \* request slot -> the request in flight in it
  identities,  \* identity provider: registered email -> uid
  profiles,    \* artifacts/APP_ID/users/{uid} : uid -> profile document
  userApps,    \* users/{uid}/loanApplications/{id} : uid -> (id -> document)
  globalApps,  \* public/data/allApplications/{id} : id -> document
  nextId,      \* the next document id the store generates
  now,         \* the store's commit clock (serverTimestamp)
  created,     \* history: <<uid, id>> of every apply-loan answered 201
  updStarted   \* history: ids an updateStatus request has begun to write

vars == <<req, identities, profiles, userApps, globalApps, nextId, now,
          created, updStarted>>

store == <<identities, profiles, userApps, globalApps>>

EmptyColl == [i \in {} |-> NoBody]

\* (seen is history: the apply-loan calls that had been answered 201 when a
\* list request arrived)
Idle == [kind |-> "none", pc |-> "idle", tok |-> NoTok, uid |-> 0,
         body |-> NoBody, id |-> 0, owner |-> 0, list |-> EmptyColl,
         seen |-> {}, resp |-> 0]

Free(r) == req[r].pc \in {"idle", "done"}

\* res.status(code).json(...) : the request is answered; what stays of it is
\* the response (the status code and, for the two GET routes, the array sent)
Answer(q, code) == [Idle EXCEPT !.pc = "done", !.resp = code, !.list = q.list]

\* handleError logging the error without sending a response
handleErrorSilent(q) == [q EXCEPT !.pc = "hung"]

\* handleError : every caught error is answered 500
handleError(q) == Answer(q, 500)

Init ==
  /\ req = [r \in Slots |-> Idle]
  /\ identities = EmptyColl
  /\ profiles = EmptyColl
  /\ userApps = [u \in UIDs |-> EmptyColl]
  /\ globalApps = EmptyColl
  /\ nextId = 1
  /\ now = 1
  /\ created = {}
  /\ updStarted = {}

\* ----------------------------------------------------------- POST /signup
\* The request arrives; the handler runs to its first await.
SignupStart(r) ==
  /\ Free(r)
  /\ \E b \in SignupBodies :
       LET q == [Idle EXCEPT !.kind = "signup", !.body = b]
       IN  req' = [req EXCEPT ![r] =
                     IF ~Truthy(b, "email") \/ ~Truthy(b, "password") \/ ~Truthy(b, "mobile")
                     THEN Answer(q, 400)
                     ELSE [q EXCEPT !.pc = "createUser"]]
  /\ UNCHANGED <<store, nextId, now, created, updStarted>>

\* The error codes the identity provider reports for a registered email.
\* The Admin SDK documents auth/email-already-exists; the handler tests for
\* auth/email-already-in-use.
DuplicateEmailCodes == {"auth/email-already-exists", "auth/email-already-in-use"}
OtherAuthCodes == {"auth/invalid-password"}

\* catch block of the signup handler
SignupCatch(q, code) ==
  IF code = "auth/email-already-in-use" THEN Answer(q, 409) ELSE handleError(q)

\* await auth.createUser({email, password, phoneNumber})
CreateUser(r) ==
  /\ req[r].pc = "createUser"
  /\ LET q == req[r]
         e == q.body.email
     IN  \/ /\ e \in DOMAIN identities
            /\ \E code \in DuplicateEmailCodes :
                 req' = [req EXCEPT ![r] = SignupCatch(q, code)]
            /\ UNCHANGED identities
         \/ /\ \E code \in OtherAuthCodes :
                 req' = [req EXCEPT ![r] = SignupCatch(q, code)]
            /\ UNCHANGED identities
         \/ /\ e \notin DOMAIN identities
            /\ \E u \in UIDs :
                 /\ \A e2 \in DOMAIN identities : identities[e2] # u
                 /\ identities' = (e :> u) @@ identities
                 /\ req' = [req EXCEPT ![r] = [q EXCEPT !.pc = "setProfile", !.uid = u]]
  /\ UNCHANGED <<profiles, userApps, globalApps, nextId, now, created, updStarted>>

\* await db...collection('users').doc(userRecord.uid).set({...})
SetProfile(r) ==
  /\ req[r].pc = "setProfile"
  /\ LET q == req[r]
     IN  \/ /\ profiles' = (q.uid :> [email |-> q.body.email, mobile |-> q.body.mobile,
                                       createdAt |-> now]) @@ profiles
            /\ now' = now + 1
            /\ req' = [req EXCEPT ![r] = [q EXCEPT !.pc = "created"]]
         \/ /\ req' = [req EXCEPT ![r] = SignupCatch(q, "unavailable")]
            /\ UNCHANGED <<profiles, now>>
  /\ UNCHANGED <<identities, userApps, globalApps, nextId, created, updStarted>>

\* res.status(201).json({ message, uid })
SignupRespond(r) ==
  /\ req[r].pc = "created"
  /\ req' = [req EXCEPT ![r] = Answer(req[r], 201)]
  /\ UNCHANGED <<store, nextId, now, created, updStarted>>

\* ------------------------------------------------------------ verifyToken
\* Lines 75-79: the synchronous part of the middleware, run when a request
\* to a protected route arrives.
verifyTokenEntry(q, h) ==
  LET tok == BearerToken(h)
  IN  IF NoToken(tok) THEN Answer(q, 401)
      ELSE [q EXCEPT !.pc = "verify", !.tok = tok]

\* A request to one of the four protected routes arrives.  Its JSON body
\* and :id parameter are first read by the route handler, and are drawn
\* where the handler starts.
ApplyLoanStart(r) ==
  /\ Free(r)
  /\ \E h \in AuthHeaders :
       req' = [req EXCEPT ![r] = verifyTokenEntry([Idle EXCEPT !.kind = "apply"], h)]
  /\ UNCHANGED <<store, nextId, now, created, updStarted>>

LoanStatusStart(r) ==
  /\ Free(r)
  /\ \E h \in AuthHeaders :
       req' = [req EXCEPT ![r] = verifyTokenEntry([Idle EXCEPT !.kind = "status", !.seen = created], h)]
  /\ UNCHANGED <<store, nextId, now, created, updStarted>>

AdminListStart(r) ==
  /\ Free(r)
  /\ \E h \in AuthHeaders :
       req' = [req EXCEPT ![r] = verifyTokenEntry([Idle EXCEPT !.kind = "admin", !.seen = created], h)]
  /\ UNCHANGED <<store, nextId, now, created, updStarted>>

UpdateStatusStart(r) ==
  /\ Free(r)
  /\ \E h \in AuthHeaders :
       req' = [req EXCEPT ![r] = verifyTokenEntry([Idle EXCEPT !.kind = "update"], h)]
  /\ UNCHANGED <<store, nextId, now, created, updStarted>>

\* ApplyLoanEntry without the test of panNumber
ApplyLoanEntryNoPan(q, b) ==
  IF \/ ~Truthy(b, "loanType") \/ ~Truthy(b, "purpose")
     \/ ~TruthyNum(b, "requestedLoanAmount")
  THEN Answer(q, 400)
  ELSE [q EXCEPT !.pc = "addUserCopy", !.body = b]

\* Lines 94-99: the apply-loan handler, given body b, up to its first await.
ApplyLoanEntry(q, b) ==
  IF \/ ~Truthy(b, "loanType") \/ ~Truthy(b, "purpose")
     \/ ~Truthy(b, "panNumber") \/ ~TruthyNum(b, "requestedLoanAmount")
  THEN Answer(q, 400)
  ELSE [q EXCEPT !.pc = "addUserCopy", !.body = b]

\* Lines 176-187: the updateStatus handler, given body b and :id i, up to its
\* first await.  The handler never reads req.user (the role check is
\* commented out), so the caller's uid is not kept.
UpdateStatusEntry(q, b, i) ==
  IF ~Truthy(b, "status") THEN Answer(q, 400)
  ELSE [q EXCEPT !.pc = "updateGlobal", !.body = b, !.id = i, !.uid = 0]

\* req.user = decodedToken
Verified(q) == [q EXCEPT !.uid = q.tok.s[1].uid, !.tok = NoTok]

\* Lines 81-89: await auth.verifyIdToken(idToken); on success req.user is set
\* and next() runs the route handler synchronously to its first await.  The
\* provider rejects a token that does not verify and may fail on one that does.
VerifyIdToken(r) ==
  /\ req[r].pc = "verify"
  /\ LET q == req[r]
     IN  \/ /\ TokenVerifies(q.tok)
            /\ q.kind = "apply"
            /\ \E b \in ApplyBodies : req' = [req EXCEPT ![r] = ApplyLoanEntry(Verified(q), b)]
         \/ /\ TokenVerifies(q.tok)
            /\ q.kind = "status"
            /\ req' = [req EXCEPT ![r] = [Verified(q) EXCEPT !.pc = "getUserApps"]]
         \/ /\ TokenVerifies(q.tok)
            /\ q.kind = "admin"
            /\ req' = [req EXCEPT ![r] = [Verified(q) EXCEPT !.pc = "getAllApps"]]
         \/ /\ TokenVerifies(q.tok)
            /\ q.kind = "update"
            /\ \E b \in UpdateBodies, i \in TargetIds :
                 req' = [req EXCEPT ![r] = UpdateStatusEntry(Verified(q), b, i)]
         \/ req' = [req EXCEPT ![r] = handleError(q)]
  /\ UNCHANGED <<store, nextId, now, created, updStarted>>

\* ------------------------------------------------------ POST /apply-loan
LoanFields == {"loanType", "purpose", "panNumber", "requestedLoanAmount",
               "monthlyEmi", "totalInterest", "principalAmount",
               "totalAmountPayable", "idProofFileName"}

\* The destructured body properties that are defined.  (A store that
\* rejects undefined values fails the write instead: the failing branch.)
Supplied(b) == [f \in DOMAIN b \cap LoanFields |-> b[f]]

\* The document of lines 104-115
UserDoc(uid, b, ts) ==
  [userId |-> uid, status |-> "Pending", appliedDate |-> ts] @@ Supplied(b)

\* GlobalDoc without the owner's id
GlobalDocNoOwner(uid, b, ts, id) ==
  [status |-> "Pending", appliedDate |-> ts, applicationId |-> id] @@ Supplied(b)

\* The document of lines 120-132
GlobalDoc(uid, b, ts, id) ==
  [userId |-> uid, status |-> "Pending", appliedDate |-> ts, applicationId |-> id]
    @@ Supplied(b)

\* AddUserCopy issuing the two writes together (both promises awaited at once)
AddBothCopies(r) ==
  /\ req[r].pc = "addUserCopy"
  /\ LET q == req[r]
     IN  \/ /\ nextId <= MaxApps
            /\ userApps' = [userApps EXCEPT ![q.uid] =
                               (nextId :> UserDoc(q.uid, q.body, now)) @@ @]
            /\ globalApps' = (nextId :> GlobalDoc(q.uid, q.body, now, nextId)) @@ globalApps
            /\ nextId' = nextId + 1
            /\ now' = now + 1
            /\ req' = [req EXCEPT ![r] = [q EXCEPT !.pc = "submitted", !.id = nextId]]
         \/ /\ req' = [req EXCEPT ![r] = handleError(q)]
            /\ UNCHANGED <<userApps, globalApps, nextId, now>>
  /\ UNCHANGED <<identities, profiles, created, updStarted>>

\* await ...collection('loanApplications').add({...})
AddUserCopy(r) ==
  /\ req[r].pc = "addUserCopy"
  /\ LET q == req[r]
     IN  \/ /\ nextId <= MaxApps
            /\ userApps' = [userApps EXCEPT ![q.uid] =
                               (nextId :> UserDoc(q.uid, q.body, now)) @@ @]
            /\ nextId' = nextId + 1
            /\ now' = now + 1
            /\ req' = [req EXCEPT ![r] = [q EXCEPT !.pc = "setGlobalCopy", !.id = nextId]]
         \/ /\ req' = [req EXCEPT ![r] = handleError(q)]
            /\ UNCHANGED <<userApps, nextId, now>>
  /\ UNCHANGED <<identities, profiles, globalApps, created, updStarted>>

\* SetGlobalCopy with add() in place of doc(id).set(): the mirror gets an id
\* of its own
SetGlobalCopyAdd(r) ==
  /\ req[r].pc = "setGlobalCopy"
  /\ LET q == req[r]
     IN  \/ /\ globalApps' = (nextId :> GlobalDoc(q.uid, q.body, now, q.id)) @@ globalApps
            /\ now' = now + 1
            /\ req' = [req EXCEPT ![r] = [q EXCEPT !.pc = "submitted"]]
         \/ /\ req' = [req EXCEPT ![r] = handleError(q)]
            /\ UNCHANGED <<globalApps, now>>
  /\ UNCHANGED <<identities, profiles, userApps, nextId, created, updStarted>>

\* SetGlobalCopy deleting the per-user copy again when the mirror write fails
SetGlobalCopyRollback(r) ==
  /\ req[r].pc = "setGlobalCopy"
  /\ LET q == req[r]
     IN  \/ /\ globalApps' = (q.id :> GlobalDoc(q.uid, q.body, now, q.id)) @@ globalApps
            /\ now' = now + 1
            /\ req' = [req EXCEPT ![r] = [q EXCEPT !.pc = "submitted"]]
            /\ UNCHANGED userApps
         \/ /\ req' = [req EXCEPT ![r] = handleError(q)]
            /\ userApps' = [userApps EXCEPT ![q.uid] =
                              [i \in DOMAIN @ \ {q.id} |-> @[i]]]
            /\ UNCHANGED <<globalApps, now>>
  /\ UNCHANGED <<identities, profiles, nextId, created, updStarted>>

\* await ...collection('allApplications').doc(loanApplicationRef.id).set({...})
SetGlobalCopy(r) ==
  /\ req[r].pc = "setGlobalCopy"
  /\ LET q == req[r]
     IN  \/ /\ globalApps' = (q.id :> GlobalDoc(q.uid, q.body, now, q.id)) @@ globalApps
            /\ now' = now + 1
            /\ req' = [req EXCEPT ![r] = [q EXCEPT !.pc = "submitted"]]
         \/ /\ req' = [req EXCEPT ![r] = handleError(q)]
            /\ UNCHANGED <<globalApps, now>>
  /\ UNCHANGED <<identities, profiles, userApps, nextId, created, updStarted>>

\* res.status(201).json({ message, applicationId })
ApplyLoanRespond(r) ==
  /\ req[r].pc = "submitted"
  /\ req' = [req EXCEPT ![r] = Answer(req[r], 201)]
  /\ created' = created \cup {<<req[r].uid, req[r].id>>}
  /\ UNCHANGED <<store, nextId, now, updStarted>>

\* --------------------------------- GET /loan-status, /admin/applications
\* snapshot.docs.map(doc => ({ id: doc.id, ...doc.data() }))
Entries(coll) == [i \in DOMAIN coll |-> coll[i] @@ [id |-> i]]

\* GetUserApps reading the central collection
GetUserAppsFromAll(r) ==
  /\ req[r].pc = "getUserApps"
  /\ LET q == req[r]
     IN  \/ req' = [req EXCEPT ![r] =
                      [q EXCEPT !.pc = "userListed", !.list = Entries(globalApps)]]
         \/ req' = [req EXCEPT ![r] = handleError(q)]
  /\ UNCHANGED <<store, nextId, now, created, updStarted>>

\* Lines 147-148: await ...collection('loanApplications').get() : the store
\* serves the read; the handler holds the snapshot until it is resumed.
GetUserApps(r) ==
  /\ req[r].pc = "getUserApps"
  /\ LET q == req[r]
     IN  \/ req' = [req EXCEPT ![r] =
                      [q EXCEPT !.pc = "userListed", !.list = Entries(userApps[q.uid])]]
         \/ req' = [req EXCEPT ![r] = handleError(q)]
  /\ UNCHANGED <<store, nextId, now, created, updStarted>>

\* Line 149: res.status(200).json(applications)
LoanStatusRespond(r) ==
  /\ req[r].pc = "userListed"
  /\ req' = [req EXCEPT ![r] = Answer(req[r], 200)]
  /\ UNCHANGED <<store, nextId, now, created, updStarted>>

\* Lines 166-167: await ...collection('allApplications').get()
GetAllApps(r) ==
  /\ req[r].pc = "getAllApps"
  /\ LET q == req[r]
     IN  \/ req' = [req EXCEPT ![r] =
                      [q EXCEPT !.pc = "allListed", !.list = Entries(globalApps)]]
         \/ req' = [req EXCEPT ![r] = handleError(q)]
  /\ UNCHANGED <<store, nextId, now, created, updStarted>>

\* Line 168: res.status(200).json(applications)
AdminListRespond(r) ==
  /\ req[r].pc = "allListed"
  /\ req' = [req EXCEPT ![r] = Answer(req[r], 200)]
  /\ UNCHANGED <<store, nextId, now, created, updStarted>>

\* ------------------------------------ PUT /admin/applications/:id/status
\* RepaymentOrNull with `repayment ?? null`: only a missing value becomes null
RepaymentNullish(b) == IF Has(b, "repayment") THEN b.repayment ELSE NULL

\* repayment || null
RepaymentOrNull(b) == IF Truthy(b, "repayment") THEN b.repayment ELSE NULL

\* Updated with set() in place of update(): the document is replaced
UpdatedReplace(doc, b) == [status |-> b.status, repayment |-> RepaymentOrNull(b)]

\* DocumentReference.update({status, repayment}) on an existing document
Updated(doc, b) == [status |-> b.status, repayment |-> RepaymentOrNull(b)] @@ doc

\* UpdateGlobal with set(..., {merge: true}) in place of update(): a missing
\* document is created
UpdateGlobalUpsert(r) ==
  /\ req[r].pc = "updateGlobal"
  /\ LET q == req[r]
     IN  \/ /\ globalApps' =
                 IF q.id \in DOMAIN globalApps
                 THEN [globalApps EXCEPT ![q.id] = Updated(@, q.body)]
                 ELSE (q.id :> [status |-> q.body.status,
                                repayment |-> RepaymentOrNull(q.body)]) @@ globalApps
            /\ updStarted' = updStarted \cup {q.id}
            /\ req' = [req EXCEPT ![r] = [q EXCEPT !.pc = "readGlobal"]]
         \/ /\ req' = [req EXCEPT ![r] = handleError(q)]
            /\ UNCHANGED <<globalApps, updStarted>>
  /\ UNCHANGED <<identities, profiles, userApps, nextId, now, created>>

\* UpdateGlobal deciding pending applications only
UpdateGlobalGuarded(r) ==
  /\ req[r].pc = "updateGlobal"
  /\ LET q == req[r]
     IN  \/ /\ q.id \in DOMAIN globalApps
            /\ globalApps[q.id].status = "Pending"
            /\ globalApps' = [globalApps EXCEPT ![q.id] = Updated(@, q.body)]
            /\ updStarted' = updStarted \cup {q.id}
            /\ req' = [req EXCEPT ![r] = [q EXCEPT !.pc = "readGlobal"]]
         \/ /\ req' = [req EXCEPT ![r] = handleError(q)]
            /\ UNCHANGED <<globalApps, updStarted>>
  /\ UNCHANGED <<identities, profiles, userApps, nextId, now, created>>

\* await centralAppRef.update({...}) : fails when the document is missing
UpdateGlobal(r) ==
  /\ req[r].pc = "updateGlobal"
  /\ LET q == req[r]
     IN  \/ /\ q.id \in DOMAIN globalApps
            /\ globalApps' = [globalApps EXCEPT ![q.id] = Updated(@, q.body)]
            /\ updStarted' = updStarted \cup {q.id}
            /\ req' = [req EXCEPT ![r] = [q EXCEPT !.pc = "readGlobal"]]
         \/ /\ req' = [req EXCEPT ![r] = handleError(q)]
            /\ UNCHANGED <<globalApps, updStarted>>
  /\ UNCHANGED <<identities, profiles, userApps, nextId, now, created>>

\* ReadGlobal testing a field the documents do not have (appData.uid)
ReadGlobalWrongField(r) ==
  /\ req[r].pc = "readGlobal"
  /\ LET q == req[r]
     IN  \/ req' = [req EXCEPT ![r] =
                      IF q.id \in DOMAIN globalApps /\ Has(globalApps[q.id], "uid")
                      THEN [q EXCEPT !.pc = "updateUser", !.owner = globalApps[q.id].userId]
                      ELSE [q EXCEPT !.pc = "updated"]]
         \/ req' = [req EXCEPT ![r] = handleError(q)]
  /\ UNCHANGED <<store, nextId, now, created, updStarted>>

\* (await centralAppRef.get()).data() and the test of line 196
ReadGlobal(r) ==
  /\ req[r].pc = "readGlobal"
  /\ LET q == req[r]
     IN  \/ req' = [req EXCEPT ![r] =
                      IF q.id \in DOMAIN globalApps /\ Has(globalApps[q.id], "userId")
                         /\ globalApps[q.id].userId # 0
                      THEN [q EXCEPT !.pc = "updateUser", !.owner = globalApps[q.id].userId]
                      ELSE [q EXCEPT !.pc = "updated"]]
         \/ req' = [req EXCEPT ![r] = handleError(q)]
  /\ UNCHANGED <<store, nextId, now, created, updStarted>>

\* await ...doc(appData.userId).collection('loanApplications').doc(id).update({...})
UpdateUser(r) ==
  /\ req[r].pc = "updateUser"
  /\ LET q == req[r]
     IN  \/ /\ q.id \in DOMAIN userApps[q.owner]
            /\ userApps' = [userApps EXCEPT ![q.owner][q.id] = Updated(@, q.body)]
            /\ req' = [req EXCEPT ![r] = [q EXCEPT !.pc = "updated"]]
         \/ /\ req' = [req EXCEPT ![r] = handleError(q)]
            /\ UNCHANGED userApps
  /\ UNCHANGED <<identities, profiles, globalApps, nextId, now, created, updStarted>>

\* UpdateStatusRespond re-aligning the owner's copy with the global copy
\* before it answers
UpdateStatusRespondSyncs(r) ==
  /\ req[r].pc = "updated"
  /\ req' = [req EXCEPT ![r] = Answer(req[r], 200)]
  /\ userApps' = [userApps EXCEPT ![req[r].owner][req[r].id] =
                    Updated(@, [status |-> globalApps[req[r].id].status,
                                repayment |-> globalApps[req[r].id].repayment])]
  /\ UNCHANGED <<identities, profiles, globalApps, nextId, now, created, updStarted>>

\* res.status(200).json({ message })
UpdateStatusRespond(r) ==
  /\ req[r].pc = "updated"
  /\ req' = [req EXCEPT ![r] = Answer(req[r], 200)]
  /\ UNCHANGED <<store, nextId, now, created, updStarted>>

\* ---------------------------------------------------------- specification
SignupNext ==
  \E r \in Slots :
    \/ SignupStart(r)
    \/ CreateUser(r)
    \/ SetProfile(r)
    \/ SignupRespond(r)

\* Fewer than k applications are stored or on their way to add() (line 103):
\* the ids generated so far and the apply-loan requests that have not
\* reached add() yet.  The specifications admit apply-loan while there is
\* room, so that add() always has a fresh id to generate.
Room(k) ==
  (nextId - 1) + Cardinality({s \in Slots : req[s].kind = "apply" /\ req[s].id = 0}) < k

LoanNext ==
  \E r \in Slots :
    \/ Room(MaxCreated) /\ ApplyLoanStart(r)
    \/ LoanStatusStart(r)
    \/ AdminListStart(r)
    \/ UpdateStatusStart(r)
    \/ VerifyIdToken(r)
    \/ AddUserCopy(r)
    \/ SetGlobalCopy(r)
    \/ ApplyLoanRespond(r)
    \/ GetUserApps(r)
    \/ LoanStatusRespond(r)
    \/ GetAllApps(r)
    \/ AdminListRespond(r)
    \/ UpdateGlobal(r)
    \/ ReadGlobal(r)
    \/ UpdateUser(r)
    \/ UpdateStatusRespond(r)

Next == SignupNext \/ LoanNext

\* The whole server
Spec == Init /\ [][Next]_vars

\* The signup route and the protected routes share no state: the former
\* touches the identity records and the profile documents only, the latter
\* the two application collections only.
SignupSpec == Init /\ [][SignupNext]_vars
LoanSpec == Init /\ [][LoanNext]_vars

TypeOK ==
  /\ nextId \in 1..(MaxApps + 1)
  /\ DOMAIN globalApps \subseteq AppIds
  /\ \A u \in UIDs : DOMAIN userApps[u] \subseteq AppIds

\* ================================================================ claims
Undefined == "<undefined>"

\* The repayment a document reports (the field is absent until an update)
RepaymentOf(doc) == IF Has(doc, "repayment") THEN doc.repayment ELSE Undefined

SameStatus(a, b) == a.status = b.status /\ RepaymentOf(a) = RepaymentOf(b)

UserCopyExists(i) == \E u \in UIDs : i \in DOMAIN userApps[u]

\* C1: in every reachable state, for every application id whose per-user
\* copy and global copy both exist, the two copies hold the same status and
\* the same repayment value.
C1_CopiesAgree ==
  \A u \in UIDs : \A i \in DOMAIN userApps[u] :
    i \in DOMAIN globalApps => SameStatus(userApps[u][i], globalApps[i])

\* C2: in every reachable state a per-user copy exists at id X if and only
\* if a global copy exists at the same id X.
C2_TwoCopies ==
  \A i \in TargetIds : UserCopyExists(i) <=> i \in DOMAIN globalApps

\* The fields the two documents of lines 104-115 and 120-131 share
SharedFields == LoanFields \cup {"userId", "status", "appliedDate"}

SameField(a, b, f) == (Has(a, f) <=> Has(b, f)) /\ (Has(a, f) => a[f] = b[f])

\* What holds of the two copies of request q's application whatever else
\* has happened: both exist, under the token's user and at the same id, and
\* agree on the owner and on every field the request supplied.
CopiesOfRequest(q) ==
  /\ q.id \in DOMAIN userApps[q.uid]
  /\ q.id \in DOMAIN globalApps
  /\ LET uc == userApps[q.uid][q.id]
         gc == globalApps[q.id]
     IN  /\ gc.applicationId = q.id
         /\ uc.userId = q.uid
         /\ gc.userId = q.uid
         /\ \A f \in LoanFields : SameField(uc, gc, f)
         /\ \A f \in LoanFields : Has(q.body, f) => Has(uc, f) /\ uc[f] = q.body[f]

\* C3: when an apply-loan request with a verified token and the four
\* mandatory fields is answered 201 with applicationId X, a per-user copy
\* exists at X under the token's user and a global copy exists at X, the
\* global copy's inline applicationId is X, both copies name the token's
\* user, and every shared field (appliedDate, and status, which is Pending,
\* included) is equal between the two copies.  The two copies are two
\* commits (lines 103 and 119), each with its own server timestamp, so
\* appliedDate never agrees; an updateStatus between the second commit and
\* the response changes status as well.
C3_AllSharedFieldsEqual ==
  \A r \in Slots :
    req[r].pc = "submitted" =>
      /\ CopiesOfRequest(req[r])
      /\ \A f \in SharedFields :
            SameField(userApps[req[r].uid][req[r].id], globalApps[req[r].id], f)
      /\ globalApps[req[r].id].status = "Pending"

\* C4: when an updateStatus call on an id whose global copy exists is
\* answered 200, the per-user copy and the global copy of that id report the
\* same status and the same repayment value.
C4_UpdatedCopiesAgree ==
  \A r \in Slots :
    (req[r].pc = "updated" /\ req[r].id \in DOMAIN globalApps) =>
      \A u \in UIDs :
        req[r].id \in DOMAIN userApps[u] =>
          SameStatus(userApps[u][req[r].id], globalApps[req[r].id])

\* C5: an updateStatus call with a non-empty status on an id that has no
\* global copy creates no document, changes no document, and is answered 500.
C5_MissingGlobal ==
  [][\A r \in Slots :
       (/\ req[r].pc = "updateGlobal"
        /\ req[r].id \notin DOMAIN globalApps
        /\ req'[r] # req[r])
       => /\ req'[r].pc = "done"
          /\ req'[r].resp = 500
          /\ userApps' = userApps
          /\ globalApps' = globalApps]_vars

\* An updateStatus request is about to update an id that has no global
\* copy while another application's documents exist.
C5_Witness ==
  \E r \in Slots :
    /\ req[r].pc = "updateGlobal"
    /\ req[r].id \notin DOMAIN globalApps
    /\ globalApps # EmptyColl

\* The list is the collection as the store holds it: one entry per
\* document, with the document's id and exactly the document's fields
Snapshot(list, coll) ==
  /\ DOMAIN list = DOMAIN coll
  /\ \A i \in DOMAIN list :
       /\ DOMAIN list[i] = DOMAIN coll[i] \cup {"id"}
       /\ list[i].id = i
       /\ \A f \in DOMAIN coll[i] : list[i][f] = coll[i][f]

\* C6 (as amended): loan-status called with a token for user u returns
\* exactly the documents u's per-user collection held when the handler read
\* it (line 147), and every returned document has userId u;
\* admin/applications returns every document the global collection held
\* when the handler read it (line 166), whoever owns it and whichever
\* verified user calls.  Neither route answers 200 without having read.
C6_Lists ==
  [][\A r \in Slots :
       /\ (req[r].pc = "getUserApps" /\ req'[r].pc = "userListed") =>
            Snapshot(req'[r].list, userApps[req[r].uid])
       /\ (req[r].pc = "getAllApps" /\ req'[r].pc = "allListed") =>
            Snapshot(req'[r].list, globalApps)
       /\ (req[r].pc \in {"userListed", "allListed"} /\ req'[r] # req[r]) =>
            /\ req'[r].pc = "done"
            /\ req'[r].resp = 200
            /\ req'[r].list = req[r].list
       /\ (req[r].pc = "userListed" /\ req'[r] # req[r]) =>
            \A i \in DOMAIN req'[r].list : req'[r].list[i].userId = req[r].uid
       /\ (req[r].pc \in {"getUserApps", "getAllApps"} /\ req'[r] # req[r]) =>
            req'[r].resp # 200]_vars

\* C6 as stated: what loan-status returns for user u is exactly the
\* documents of u's per-user collection, each with userId u, and what
\* admin/applications returns is every document of the global collection,
\* in the state in which the list is returned (lines 149 and 168).
C6_ListsAtResponse ==
  [][\A r \in Slots :
       /\ (req[r].pc = "userListed" /\ req'[r] # req[r]) =>
            /\ req'[r].resp = 200
            /\ Snapshot(req'[r].list, userApps[req[r].uid])
            /\ \A i \in DOMAIN req'[r].list : req'[r].list[i].userId = req[r].uid
       /\ (req[r].pc = "allListed" /\ req'[r] # req[r]) =>
            /\ req'[r].resp = 200
            /\ Snapshot(req'[r].list, globalApps)]_vars

\* Two lists have been read and are about to be returned while the store
\* holds two applications of two owners: a loan-status list that holds the
\* caller's own application and not the other owner's, and an
\* admin/applications list that holds both.
C6_Witness ==
  \E r1, r2 \in Slots :
    /\ req[r1].pc = "userListed"
    /\ req[r1].list # EmptyColl
    /\ Snapshot(req[r1].list, userApps[req[r1].uid])
    /\ \E i \in DOMAIN globalApps : globalApps[i].userId # req[r1].uid
    /\ req[r2].pc = "allListed"
    /\ Snapshot(req[r2].list, globalApps)
    /\ \E i, j \in DOMAIN req[r2].list :
         req[r2].list[i].userId # req[r2].list[j].userId

\* C7: once apply-loan has been answered 201 with id X for user u, every
\* loan-status call of u that arrives later returns an entry with id X and
\* every admin/applications call that arrives later returns an entry with
\* applicationId X; while no updateStatus has written X, both entries have
\* status Pending.
C7_CreatedStaysListed ==
  [][\A r \in Slots : \A c \in req[r].seen :
       /\ (req[r].pc = "userListed" /\ req'[r] # req[r] /\ req[r].uid = c[1]) =>
            /\ req'[r].resp = 200
            /\ c[2] \in DOMAIN req'[r].list
            /\ req'[r].list[c[2]].id = c[2]
            /\ c[2] \notin updStarted => req'[r].list[c[2]].status = "Pending"
       /\ (req[r].pc = "allListed" /\ req'[r] # req[r]) =>
            /\ req'[r].resp = 200
            /\ c[2] \in DOMAIN req'[r].list
            /\ Has(req'[r].list[c[2]], "applicationId")
            /\ req'[r].list[c[2]].applicationId = c[2]
            /\ c[2] \notin updStarted => req'[r].list[c[2]].status = "Pending"]_vars

\* The applicant's loan-status call and an admin/applications call both
\* arrived after the 201 and have read their collections.
C7_Witness ==
  \E r1, r2 \in Slots : \E c \in created :
    /\ req[r1].pc = "userListed" /\ req[r1].uid = c[1] /\ c \in req[r1].seen
    /\ req[r2].pc = "allListed" /\ c \in req[r2].seen
    /\ c[2] \notin updStarted

\* C8: a signup with email, password and mobile present creates exactly one
\* identity record and one profile document when the email is new (unless
\* the provider turns the request down and nothing is created); when the
\* email is registered it is answered 409 and nothing is created or changed.
C8_Signup ==
  [][\A r \in Slots :
       /\ (req[r].pc = "createUser" /\ req'[r] # req[r]) =>
            IF req[r].body.email \in DOMAIN identities
            THEN /\ req'[r].resp = 409
                 /\ identities' = identities
                 /\ profiles' = profiles
            ELSE \/ /\ req[r].body.email \in DOMAIN identities'
                    /\ Cardinality(DOMAIN identities') = Cardinality(DOMAIN identities) + 1
                 \/ /\ req'[r].pc = "done"
                    /\ identities' = identities
       /\ (req[r].pc = "setProfile" /\ req'[r] # req[r]) =>
            /\ req[r].uid \in DOMAIN profiles'
            /\ Cardinality(DOMAIN profiles') = Cardinality(DOMAIN profiles) + 1]_vars

\* The pcs of the four route handlers' bodies
HandlerPcs == {"addUserCopy", "setGlobalCopy", "submitted", "getUserApps",
               "userListed", "getAllApps", "allListed", "updateGlobal",
               "readGlobal", "updateUser", "updated"}

\* The token carries an identity token that is expired or forged
BadToken(tok) == \E k \in 1..Len(tok.s) : tok.s[k].t = "jwt" /\ ~tok.s[k].good

\* C9: on the protected routes a request without a bearer token is answered
\* 401 and one whose token fails verification is answered 500; in both cases
\* the handler body never runs and the store is neither read nor written.
C9_Unauthenticated ==
  /\ [](\A k \in {"apply", "status", "admin", "update"} : \A h \in AuthHeaders :
          ~h.has => verifyTokenEntry([Idle EXCEPT !.kind = k], h) = Answer(Idle, 401))
  /\ [][\A r \in Slots :
          /\ (Free(r) /\ req'[r] # req[r]) =>
               \/ req'[r].pc = "verify" /\ req'[r].tok.def /\ req'[r].tok.s # << >>
               \/ /\ req'[r] = Answer(Idle, 401)
                  /\ UNCHANGED <<store, nextId, now>>
          /\ (req[r].pc = "verify" /\ BadToken(req[r].tok) /\ req'[r] # req[r]) =>
               /\ req'[r] = Answer(Idle, 500)
               /\ UNCHANGED <<store, nextId, now>>
          /\ (req'[r].pc \in HandlerPcs /\ req[r].pc \notin HandlerPcs) =>
               req[r].pc = "verify" /\ ~BadToken(req[r].tok)]_vars

\* A request has been answered 401 and one with an expired token awaits
\* verification, while an application exists in the store.
C9_Witness ==
  \E r1, r2 \in Slots :
    /\ req[r1].pc = "done" /\ req[r1].resp = 401
    /\ req[r2].pc = "verify" /\ BadToken(req[r2].tok)
    /\ globalApps # EmptyColl

MandatoryFields == {"loanType", "purpose", "panNumber", "requestedLoanAmount"}

\* C10: with a verified token, an apply-loan request that lacks one of the
\* four mandatory fields and an updateStatus request that lacks status are
\* answered 400, and no store write is issued.
C10_Validation ==
  /\ [](\A r \in Slots :
          (req[r].pc = "verify" /\ ~BadToken(req[r].tok)) =>
            /\ \A b \in ApplyBodies :
                 (\E f \in MandatoryFields : ~Has(b, f)) =>
                   ApplyLoanEntry(Verified(req[r]), b) = Answer(Idle, 400)
            /\ \A b \in UpdateBodies : \A i \in TargetIds :
                 ~Has(b, "status") =>
                   UpdateStatusEntry(Verified(req[r]), b, i) = Answer(Idle, 400))
  /\ [][\A r \in Slots :
          /\ (req[r].pc = "verify" /\ req'[r] # req[r]) => UNCHANGED <<store, nextId, now>>
          /\ req'[r].pc = "addUserCopy" =>
               \A f \in MandatoryFields : Has(req'[r].body, f)
          /\ req'[r].pc = "updateGlobal" => Has(req'[r].body, "status")]_vars

\* A request has been answered 400 while an application exists and another
\* verified request is about to enter its handler.
C10_Witness ==
  \E r1, r2 \in Slots :
    /\ req[r1].pc = "done" /\ req[r1].resp = 400
    /\ req[r2].pc = "verify" /\ ~BadToken(req[r2].tok)
    /\ globalApps # EmptyColl

\* ------------------------------------------------ runs without a failure
\* A step in which no awaited call fails: no request is answered through
\* handleError.
NoFailure == \A r \in Slots : req'[r].resp # 500

NoFailNext ==
  \E r \in Slots :
    \/ Room(MaxCreated) /\ ApplyLoanStart(r) /\ NoFailure
    \/ LoanStatusStart(r) /\ NoFailure
    \/ AdminListStart(r) /\ NoFailure
    \/ UpdateStatusStart(r) /\ NoFailure
    \/ VerifyIdToken(r) /\ NoFailure
    \/ AddUserCopy(r) /\ NoFailure
    \/ SetGlobalCopy(r) /\ NoFailure
    \/ ApplyLoanRespond(r) /\ NoFailure
    \/ GetUserApps(r) /\ NoFailure
    \/ LoanStatusRespond(r) /\ NoFailure
    \/ GetAllApps(r) /\ NoFailure
    \/ AdminListRespond(r) /\ NoFailure
    \/ UpdateGlobal(r) /\ NoFailure
    \/ ReadGlobal(r) /\ NoFailure
    \/ UpdateUser(r) /\ NoFailure
    \/ UpdateStatusRespond(r) /\ NoFailure

\* The protected routes when the identity provider and the store never fail
NoFailSpec == Init /\ [][NoFailNext]_vars

\* Requests r1 and r2 are updateStatus calls on the same existing id with
\* different status values, and both have completed their last store call.
BothUpdated(r1, r2) ==
  /\ r1 # r2
  /\ req[r1].pc = "updated" /\ req[r2].pc = "updated"
  /\ req[r1].id = req[r2].id
  /\ req[r1].body.status # req[r2].body.status
  /\ req[r1].id \in DOMAIN globalApps

\* C11: with no store failure, two concurrent updateStatus calls on the same
\* existing id with different status values can both reach their 200
\* response with the two copies holding different status values; from there
\* every step left to them is the 200 response, which leaves the store as it
\* is, so the difference stands when no request is in flight.
C11_RaceStands ==
  [][\A r \in Slots :
       (req[r].pc = "updated" /\ req'[r] # req[r]) =>
         /\ req'[r].pc = "done"
         /\ req'[r].resp = 200
         /\ userApps' = userApps
         /\ globalApps' = globalApps
         /\ \A r2 \in Slots \ {r} : req'[r2] = req[r2]]_vars

\* Both calls are about to be answered 200 and the global copy holds one
\* call's status while the owner's copy holds the other's.
C11_Witness ==
  \E r1, r2 \in Slots :
    /\ BothUpdated(r1, r2)
    /\ globalApps[req[r1].id].status = req[r1].body.status
    /\ userApps[req[r1].owner][req[r1].id].status = req[r2].body.status

\* The documents stored under id i: each user's copy and the global copy
DocsAt(i) ==
  <<[u \in UIDs |-> IF i \in DOMAIN userApps[u] THEN userApps[u][i] ELSE NoBody],
    IF i \in DOMAIN globalApps THEN globalApps[i] ELSE NoBody>>

\* The pcs at which a request is about to write a document it names by id
WritePcs == {"setGlobalCopy", "updateGlobal", "updateUser"}

\* C12: when the second write of a dual write fails (apply-loan: the global
\* write; updateStatus: the per-user update) the request is answered 500 and
\* the first write stays as it is; and the documents of an id that has a
\* copy change only in a step of a request that writes that id, so what the
\* failure left behind stays until some later request writes the id again.
C12_PartialWriteStands ==
  [][/\ \A r \in Slots :
          (req[r].pc \in {"setGlobalCopy", "updateUser"} /\ req'[r].pc = "done") =>
             /\ req'[r].resp = 500
             /\ userApps' = userApps
             /\ globalApps' = globalApps
             /\ req[r].pc = "setGlobalCopy" =>
                  /\ req[r].id \in DOMAIN userApps[req[r].uid]
                  /\ req[r].id \notin DOMAIN globalApps
     /\ \A i \in TargetIds :
          (DocsAt(i) # <<[u \in UIDs |-> NoBody], NoBody>> /\ DocsAt(i)' # DocsAt(i)) =>
             \E r \in Slots :
               /\ req[r].pc \in WritePcs
               /\ req[r].id = i
               /\ req'[r] # req[r]]_vars

\* An updateStatus call has been answered 500 after its global update, no
\* request is in flight, and the global copy holds the new status and
\* repayment while the owner's copy still holds Pending.
C12_Witness ==
  \E r \in Slots : \E i \in DOMAIN globalApps :
    /\ req[r].pc = "done" /\ req[r].resp = 500
    /\ \A r2 \in Slots : Free(r2)
    /\ globalApps[i].status = "Approved"
    /\ RepaymentOf(globalApps[i]) = "Paid"
    /\ userApps[globalApps[i].userId][i].status = "Pending"

\* The order of one request's steps: pc -> the pcs that may follow it
\* (every pc may also be followed by "done": the call failed, or the
\* handler returned its response).
NextPcs(pc) ==
  CASE pc = "verify" -> {"addUserCopy", "getUserApps", "getAllApps", "updateGlobal"}
    [] pc = "getUserApps" -> {"userListed"}
    [] pc = "getAllApps" -> {"allListed"}
    [] pc = "addUserCopy" -> {"setGlobalCopy"}
    [] pc = "setGlobalCopy" -> {"submitted"}
    [] pc = "updateGlobal" -> {"readGlobal"}
    [] pc = "readGlobal" -> {"updateUser", "updated"}
    [] pc = "updateUser" -> {"updated"}
    [] OTHER -> {}

\* One step is one request's step, and a collection changes only in the
\* step that completes the matching store call of that request.
OneCallPerStep ==
  /\ \A r1, r2 \in Slots : (req'[r1] # req[r1] /\ req'[r2] # req[r2]) => r1 = r2
  /\ \A r \in Slots :
       (req'[r] # req[r] /\ ~Free(r)) => req'[r].pc \in NextPcs(req[r].pc) \cup {"done"}
  /\ userApps' # userApps =>
       \E r \in Slots :
         \/ req[r].pc = "addUserCopy" /\ req'[r].pc = "setGlobalCopy"
         \/ req[r].pc = "updateUser" /\ req'[r].pc = "updated"
  /\ globalApps' # globalApps =>
       \E r \in Slots :
         \/ req[r].pc = "setGlobalCopy" /\ req'[r].pc = "submitted"
         \/ req[r].pc = "updateGlobal" /\ req'[r].pc = "readGlobal"
  /\ (userApps' # userApps) => (globalApps' = globalApps)

\* C13 (as amended): within one request the store calls are strictly
\* sequential and in a fixed order: apply-loan issues the global write only
\* after the per-user write has completed; updateStatus first updates the
\* global copy, then reads it to discover the owning userId, then updates
\* the per-user copy, each step starting only after the previous one has
\* completed.
C13_Sequential ==
  [][/\ OneCallPerStep
     /\ \A r \in Slots :
          /\ (req[r].pc = "updateGlobal" /\ req'[r] # req[r]) => req[r].owner = 0
          /\ (req'[r].owner # req[r].owner /\ req'[r].owner # 0) =>
               /\ req[r].pc = "readGlobal"
               /\ req'[r].owner = globalApps[req[r].id].userId
               /\ UNCHANGED <<userApps, globalApps>>
          /\ (req[r].pc = "setGlobalCopy" /\ req'[r] # req[r]) =>
               req[r].id \in DOMAIN userApps[req[r].uid]]_vars

\* C13 as stated: updateStatus has read the global copy and discovered the
\* owner before it updates the global copy.
C13_ReadBeforeUpdate ==
  [][/\ OneCallPerStep
     /\ \A r \in Slots :
          (req[r].pc = "updateGlobal" /\ globalApps' # globalApps) =>
             req[r].owner # 0]_vars

\* An updateStatus call has updated the global copy and then read the owner
\* from it, and has not yet updated the owner's copy.
C13_Witness ==
  \E r \in Slots :
    /\ req[r].pc = "updateUser"
    /\ req[r].owner # 0
    /\ globalApps[req[r].id].status = req[r].body.status
    /\ userApps[req[r].owner][req[r].id].status # req[r].body.status

\* The status values the source names (comment of line 177, line 114)
StatusEnum == {"Pending", "Approved", "Rejected"}

\* C14: updateStatus stores no status outside the enum: in every reachable
\* state the status of every per-user copy and of every global copy is one
\* of Pending, Approved, Rejected.
C14_StatusEnum ==
  /\ \A i \in DOMAIN globalApps : globalApps[i].status \in StatusEnum
  /\ \A u \in UIDs : \A i \in DOMAIN userApps[u] : userApps[u][i].status \in StatusEnum

\* C15: the status state machine is unguarded: whatever status an existing
\* application holds and whatever non-empty status t an updateStatus call
\* carries, each store step of the call can succeed, the global update sets
\* the global copy's status to t and the per-user update sets the owner's
\* copy's status to t, including t = Pending after Approved or Rejected and
\* t equal to the current status.
C15_Unguarded ==
  /\ [](\A r \in Slots :
          /\ (req[r].pc = "updateGlobal" /\ req[r].id \in DOMAIN globalApps) =>
               ENABLED (UpdateGlobal(r) /\ req'[r].pc = "readGlobal")
          /\ req[r].pc = "readGlobal" =>
               ENABLED (ReadGlobal(r) /\ req'[r].pc = "updateUser")
          /\ req[r].pc = "updateUser" =>
               ENABLED (UpdateUser(r) /\ req'[r].pc = "updated")
          /\ req[r].pc = "updated" =>
               ENABLED (UpdateStatusRespond(r) /\ req'[r].resp = 200))
  /\ [][\A r \in Slots :
          /\ (req[r].pc = "updateGlobal" /\ req'[r].pc = "readGlobal") =>
               globalApps'[req[r].id].status = req[r].body.status
          /\ (req[r].pc = "updateUser" /\ req'[r].pc = "updated") =>
               userApps'[req[r].owner][req[r].id].status = req[r].body.status]_vars

\* An updateStatus call with status Pending has set the global copy back to
\* Pending; the owner's copy still shows the Approved it is reverting.
C15_Witness ==
  \E r \in Slots :
    /\ req[r].pc = "readGlobal"
    /\ req[r].body.status = "Pending"
    /\ globalApps[req[r].id].status = "Pending"
    /\ \E u \in UIDs :
         /\ req[r].id \in DOMAIN userApps[u]
         /\ userApps[u][req[r].id].status = "Approved"

\* C16: a successful updateStatus call that omits repayment, or passes an
\* empty one, writes an explicit null repayment to the global copy and to
\* the owner's copy, whatever repayment they held.
C16_ExplicitNull ==
  [][\A r \in Slots :
       ~(Has(req[r].body, "repayment") /\ req[r].body.repayment # "") =>
         /\ (req[r].pc = "updateGlobal" /\ req'[r].pc = "readGlobal") =>
              /\ Has(globalApps'[req[r].id], "repayment")
              /\ globalApps'[req[r].id].repayment = NULL
         /\ (req[r].pc = "updateUser" /\ req'[r].pc = "updated") =>
              /\ Has(userApps'[req[r].owner][req[r].id], "repayment")
              /\ userApps'[req[r].owner][req[r].id].repayment = NULL]_vars

\* A status-only update has overwritten the global copy's repayment with
\* null; the owner's copy still shows the "Paid" an earlier call stored.
C16_Witness ==
  \E r \in Slots :
    /\ req[r].pc = "readGlobal"
    /\ ~Has(req[r].body, "repayment")
    /\ globalApps[req[r].id].repayment = NULL
    /\ \E u \in UIDs :
         /\ req[r].id \in DOMAIN userApps[u]
         /\ RepaymentOf(userApps[u][req[r].id]) = "Paid"

\* ------------------------------------------- a store that is not empty
\* The store outlives the server: it may hold an application that an
\* earlier apply-loan call created.  SeedId is the id the store generated
\* for it; the next add() generates the id after it.
SeedId == 1
SeedOwner == NumUsers

SeededInit ==
  /\ req = [r \in Slots |-> Idle]
  /\ identities = EmptyColl
  /\ profiles = EmptyColl
  /\ userApps = [u \in UIDs |->
                   IF u = SeedOwner
                   THEN (SeedId :> UserDoc(SeedOwner, FullBody("Car", 70000), 1))
                   ELSE EmptyColl]
  /\ globalApps = (SeedId :> GlobalDoc(SeedOwner, FullBody("Car", 70000), 2, SeedId))
  /\ nextId = SeedId + 1
  /\ now = 3
  /\ created = {<<SeedOwner, SeedId>>}
  /\ updStarted = {}

\* The routes that write the application collections: an applicant's
\* requests arrive in slot 1, status updates in the other slots.
WriteNext ==
  \E r \in Slots :
    \/ r = 1 /\ Room(MaxApps) /\ ApplyLoanStart(r)
    \/ r # 1 /\ UpdateStatusStart(r)
    \/ VerifyIdToken(r)
    \/ AddUserCopy(r)
    \/ SetGlobalCopy(r)
    \/ ApplyLoanRespond(r)
    \/ UpdateGlobal(r)
    \/ ReadGlobal(r)
    \/ UpdateUser(r)
    \/ UpdateStatusRespond(r)

SeededSpec == SeededInit /\ [][WriteNext]_vars

\* The fields updateStatus writes
StatusFields == {"status", "repayment"}

\* Document a is still there as b, with its creation-time fields as they were
SameCreation(a, b) ==
  /\ DOMAIN b \ StatusFields = DOMAIN a \ StatusFields
  /\ \A f \in DOMAIN a \ StatusFields : b[f] = a[f]

\* C17: no step deletes a copy or changes a creation-time field of one; a
\* status or repayment of an existing copy changes only in a write step of an
\* updateStatus call on that id; and a step of an updateStatus call on id X
\* leaves every document with another id as it is.
C17_Frame ==
  [][/\ \A u \in UIDs : \A i \in DOMAIN userApps[u] :
          /\ i \in DOMAIN userApps'[u]
          /\ SameCreation(userApps[u][i], userApps'[u][i])
          /\ userApps'[u][i] # userApps[u][i] =>
               \E r \in Slots : /\ req[r].pc = "updateUser" /\ req[r].id = i
                                /\ req'[r].pc = "updated"
     /\ \A i \in DOMAIN globalApps :
          /\ i \in DOMAIN globalApps'
          /\ SameCreation(globalApps[i], globalApps'[i])
          /\ globalApps'[i] # globalApps[i] =>
               \E r \in Slots : /\ req[r].pc = "updateGlobal" /\ req[r].id = i
                                /\ req'[r].pc = "readGlobal"
     /\ \A r \in Slots :
          (req[r].pc \in {"updateGlobal", "readGlobal", "updateUser", "updated"}
             /\ req'[r] # req[r]) =>
            /\ DOMAIN globalApps' = DOMAIN globalApps
            /\ \A i \in DOMAIN globalApps \ {req[r].id} : globalApps'[i] = globalApps[i]
            /\ \A u \in UIDs :
                 /\ DOMAIN userApps'[u] = DOMAIN userApps[u]
                 /\ \A i \in DOMAIN userApps[u] \ {req[r].id} :
                      userApps'[u][i] = userApps[u][i]]_vars

\* Two applications exist; an updateStatus call on one of them has written
\* both of its copies and the other application is as it was created.
C17_Witness ==
  \E r \in Slots : \E i \in DOMAIN globalApps \ {SeedId} :
    /\ req[r].pc = "updated"
    /\ req[r].id = SeedId
    /\ globalApps[SeedId].status = "Approved"
    /\ userApps[SeedOwner][SeedId].status = "Approved"
    /\ globalApps[i].status = "Pending"
    /\ ~Has(globalApps[i], "repayment")

\* ------------------------------------------------------------- progress
\* The step that resumes request r: the awaited call of its pc completes,
\* with a result or with an error.
Resume(r) ==
  \/ CreateUser(r)
  \/ SetProfile(r)
  \/ SignupRespond(r)
  \/ VerifyIdToken(r)
  \/ AddUserCopy(r)
  \/ SetGlobalCopy(r)
  \/ ApplyLoanRespond(r)
  \/ GetUserApps(r)
  \/ LoanStatusRespond(r)
  \/ GetAllApps(r)
  \/ AdminListRespond(r)
  \/ UpdateGlobal(r)
  \/ ReadGlobal(r)
  \/ UpdateUser(r)
  \/ UpdateStatusRespond(r)

\* Every route of the server; signup requests arrive in slot 1 (until
\* MaxProfiles profiles have been stored), requests to the protected routes
\* in the other slots.
LiveNext ==
  \E r \in Slots :
    \/ r = 1 /\ Cardinality(DOMAIN profiles) < MaxProfiles /\ SignupStart(r)
    \/ r # 1 /\ Room(MaxCreated) /\ ApplyLoanStart(r)
    \/ r # 1 /\ LoanStatusStart(r)
    \/ r # 1 /\ AdminListStart(r)
    \/ r # 1 /\ UpdateStatusStart(r)
    \/ Resume(r)

\* Every identity-provider and store call eventually completes, and the
\* event loop runs the continuation of every completed call.
LiveSpec == Init /\ [][LiveNext]_vars /\ \A r \in Slots : WF_vars(Resume(r))

InFlight(r) == ~Free(r)

\* What an arriving request turns a free slot into: a handler at its first
\* await, or the 400/401 the synchronous checks answer
Arrived(q) ==
  \/ q.pc \in {"createUser", "verify"}
  \/ q.pc = "done" /\ q.resp \in {400, 401}

\* C18: under the assumption that every identity-provider and store call
\* eventually completes, every request is eventually answered; an answered
\* request takes no further step (its slot changes only when the next
\* request arrives), so it is answered once; and the step of one request
\* changes no other request, whether it fails or not.
C18_Answered ==
  /\ \A r \in Slots : InFlight(r) ~> (req[r].pc = "done")
  /\ [](\A r \in Slots : InFlight(r) => ENABLED <<Resume(r)>>_vars)
  /\ [][\A r \in Slots :
          /\ (req[r].pc = "done" /\ req'[r] # req[r]) =>
               Arrived(req'[r]) /\ UNCHANGED <<store, nextId, now>>
          /\ (InFlight(r) /\ req'[r].pc = "done") => req'[r].resp \in {200, 201, 400, 409, 500}
          /\ req'[r] # req[r] => \A r2 \in Slots \ {r} : req'[r2] = req[r2]]_vars

\* A signup whose profile write failed has been answered 500, and the
\* updateStatus call in the other slot has gone on to its last step.
C18_Witness ==
  \E r1, r2 \in Slots :
    /\ r1 # r2
    /\ req[r1].pc = "done" /\ req[r1].resp = 500
    /\ req[r2].pc = "updated"
    /\ \E e \in DOMAIN identities : identities[e] \notin DOMAIN profiles

\* C19: in every reachable state every global copy at id X has a userId u
\* that names a user, and a per-user copy exists at X under u.
C19_NoOrphanGlobal ==
  \A i \in DOMAIN globalApps :
    /\ Has(globalApps[i], "userId")
    /\ globalApps[i].userId \in UIDs
    /\ i \in DOMAIN userApps[globalApps[i].userId]
    /\ userApps[globalApps[i].userId][i].userId = globalApps[i].userId

\* A global copy exists while one request has been answered 500 and an
\* updateStatus call on that id is between its two writes.
C19_Witness ==
  \E r1, r2 \in Slots : \E i \in DOMAIN globalApps :
    /\ req[r1].pc = "done" /\ req[r1].resp = 500
    /\ req[r2].pc = "updateUser" /\ req[r2].id = i

\* The pcs of the updateStatus handler's body
UpdatePcs == {"updateGlobal", "readGlobal", "updateUser", "updated"}

\* C20: an updateStatus call reaches its 200 only through its global update
\* followed by its per-user update: the read of line 195 always finds a
\* document with a userId, so the branch that skips the per-user update is
\* never taken.
C20_BothUpdates ==
  [][\A r \in Slots :
       /\ (req[r].pc \in UpdatePcs /\ req'[r].pc = "done" /\ req'[r].resp = 200) =>
            req[r].pc = "updated"
       /\ (req'[r].pc = "updated" /\ req[r].pc # "updated") =>
            /\ req[r].pc = "updateUser"
            /\ userApps'[req[r].owner][req[r].id].status = req[r].body.status
            /\ Has(userApps'[req[r].owner][req[r].id], "repayment")
       /\ (req'[r].pc = "updateUser" /\ req[r].pc # "updateUser") =>
            /\ req[r].pc = "readGlobal"
            /\ req'[r].owner = globalApps[req[r].id].userId
       /\ (req'[r].pc = "readGlobal" /\ req[r].pc # "readGlobal") =>
            /\ req[r].pc = "updateGlobal"
            /\ globalApps'[req[r].id].status = req[r].body.status
            /\ Has(globalApps'[req[r].id], "repayment")]_vars

\* An updateStatus call is about to be answered 200 and both copies hold the
\* status and repayment it carried.
C20_Witness ==
  \E r \in Slots :
    /\ req[r].pc = "updated"
    /\ globalApps[req[r].id].status = req[r].body.status
    /\ userApps[req[r].owner][req[r].id].status = req[r].body.status
    /\ RepaymentOf(globalApps[req[r].id]) = "Paid"
    /\ RepaymentOf(userApps[req[r].owner][req[r].id]) = "Paid"

\* ------------------------------------- lists over a store that is not empty
\* Every protected route over the seeded store: a user's requests (apply-loan,
\* loan-status) arrive in slot 1, an administrator's (admin/applications,
\* updateStatus) in the other slots.
ListNext ==
  \E r \in Slots :
    \/ r = 1 /\ Room(MaxApps) /\ ApplyLoanStart(r)
    \/ r = 1 /\ LoanStatusStart(r)
    \/ r # 1 /\ AdminListStart(r)
    \/ r # 1 /\ UpdateStatusStart(r)
    \/ VerifyIdToken(r)
    \/ AddUserCopy(r)
    \/ SetGlobalCopy(r)
    \/ ApplyLoanRespond(r)
    \/ GetUserApps(r)
    \/ LoanStatusRespond(r)
    \/ GetAllApps(r)
    \/ AdminListRespond(r)
    \/ UpdateGlobal(r)
    \/ ReadGlobal(r)
    \/ UpdateUser(r)
    \/ UpdateStatusRespond(r)

ListSpec == SeededInit /\ [][ListNext]_vars

====
